---- MODULE Spec2Model ----
(***************************************************************************)
(* Fixed-rate reward accrual engine of gem-farm                            *)
(* (programs/gem_farm/src/state/fixed_rewards_OLD.rs).                     *)
(*                                                                         *)
(* u64 is modelled as an unsigned word of WordBits bits.  Every fallible   *)
(* function returns a Result: Ok(v) or Err(e).  Two specifications:        *)
(*   SpecCalc  the pure functions of FixedRateConfig applied to a config   *)
(*             drawn from CalcConfigs, elapsed time running upwards;       *)
(*   Spec      the life cycle of one FixedRateReward with its TimeTracker, *)
(*             FundsTracker and the farmers' reward records.               *)
(***************************************************************************)
EXTENDS Integers, Sequences, FiniteSets

VARIABLES
    config,              \* FixedRateReward.config
    gems_participating,  \* FixedRateReward.gems_participating
    gems_made_whole,     \* FixedRateReward.gems_made_whole
    times,               \* TimeTracker: duration_sec, reward_end_ts, lock_end_ts
    funds,               \* FundsTracker: total_funded, total_refunded, total_accrued_to_stakers
    farmers,             \* per farmer: gems_staked, begin_staking_ts and the FarmerReward
    now,                 \* the clock handed to every call as now_ts
    last,                \* the call made by the last step and what it returned
    sinceLock,           \* a lock_reward succeeded and only cancel/update calls followed
    fundings,            \* the number of fund_reward calls made so far
    calc                 \* SpecCalc: results of the pure functions applied so far

vars == <<config, gems_participating, gems_made_whole, times, funds, farmers,
          now, last, sinceLock, fundings, calc>>

---------------------------------------------------------------------------
(* Bounds of the model *)

WordBits == 3

MaxRate == 2

MaxDur == 3

MaxGems == 2

MaxTime == 3

MaxStake == 2

MaxFundings == 2

MaxU == 2 ^ WordBits - 1

---------------------------------------------------------------------------
(* Result<u64, ProgramError> and the checked arithmetic of gem_common *)

Ok(v) == [ok |-> TRUE, val |-> v, err |-> "none"]

Err(e) == [ok |-> FALSE, val |-> 0, err |-> e]

Min(a, b) == IF a <= b THEN a ELSE b

Max(a, b) == IF a >= b THEN a ELSE b

try_add(a, b) == IF a + b > MaxU THEN Err("ArithmeticOverflow") ELSE Ok(a + b)

try_sub(a, b) == IF a < b THEN Err("ArithmeticUnderflow") ELSE Ok(a - b)

try_mul(a, b) == IF a * b > MaxU THEN Err("ArithmeticOverflow") ELSE Ok(a * b)

\* the ? operator: an Err is returned as it is, an Ok value is handed on
Bind(r, F(_)) == IF r.ok THEN F(r.val) ELSE r

---------------------------------------------------------------------------
(* PeriodConfig, Option<PeriodConfig>, FixedRateConfig *)

PeriodConfig(r, d) == [rate |-> r, duration_sec |-> d]

None == [some |-> FALSE, v |-> PeriodConfig(0, 0)]

Some(p) == [some |-> TRUE, v |-> p]

FixedRateConfig(p1, p2, p3, g) ==
    [period_1 |-> p1, period_2 |-> p2, period_3 |-> p3, gems_funded |-> g]

Periods == {PeriodConfig(r, d) : r \in 0 .. MaxRate, d \in 0 .. MaxDur}

OptPeriods == {None} \cup {Some(p) : p \in Periods}

CalcConfigs ==
    {FixedRateConfig(p1, p2, p3, g) :
        p1 \in Periods, p2 \in OptPeriods, p3 \in OptPeriods, g \in 0 .. MaxGems}

---------------------------------------------------------------------------
(* impl FixedRateConfig *)

max_duration_wrapping(c) ==
    Ok((c.period_1.duration_sec
        + (IF c.period_2.some THEN c.period_2.v.duration_sec ELSE 0)
        + (IF c.period_3.some THEN c.period_3.v.duration_sec ELSE 0)) % (MaxU + 1))

max_duration(c) ==
    LET period_1_duration == c.period_1.duration_sec
        period_2_duration == IF c.period_2.some THEN c.period_2.v.duration_sec ELSE 0
        period_3_duration == IF c.period_3.some THEN c.period_3.v.duration_sec ELSE 0
    IN  Bind(try_add(period_1_duration, period_2_duration),
             LAMBDA s12 : try_add(s12, period_3_duration))

\* rate.try_mul(duration_sec)? of an optional period, 0 when it is None
period_reward(o) ==
    IF o.some THEN try_mul(o.v.rate, o.v.duration_sec) ELSE Ok(0)

\* period 3 left out of the total
max_reward_per_gem_short(c) ==
    Bind(try_mul(c.period_1.rate, c.period_1.duration_sec), LAMBDA p1_reward :
    Bind(period_reward(c.period_2), LAMBDA p2_reward :
    try_add(p1_reward, p2_reward)))

max_reward_per_gem(c) ==
    Bind(try_mul(c.period_1.rate, c.period_1.duration_sec), LAMBDA p1_reward :
    Bind(period_reward(c.period_2), LAMBDA p2_reward :
    Bind(period_reward(c.period_3), LAMBDA p3_reward :
    Bind(try_add(p1_reward, p2_reward), LAMBDA s12 :
    try_add(s12, p3_reward)))))

\* period 3 is given what period 1 left, as if period 2 had consumed nothing
accrued_reward_per_gem_skip(c, duration) ==
    LET p1_duration == Min(c.period_1.duration_sec, duration)
        p2_duration == IF c.period_2.some
                       THEN Min(c.period_2.v.duration_sec, duration - p1_duration)
                       ELSE 0
        p3_duration == IF c.period_3.some
                       THEN Min(c.period_3.v.duration_sec, duration - p1_duration)
                       ELSE 0
    IN  Ok(c.period_1.rate * p1_duration
           + c.period_2.v.rate * p2_duration
           + c.period_3.v.rate * p3_duration)

\* a slip of operands: period 2 is given what is left of period 1, not of `duration`
accrued_reward_per_gem_slip(c, duration) ==
    LET p1_duration == Min(c.period_1.duration_sec, duration)
        p2_duration == IF c.period_2.some
                       THEN Min(c.period_2.v.duration_sec,
                                c.period_1.duration_sec - p1_duration)
                       ELSE 0
        p3_duration == IF c.period_3.some
                       THEN Min(c.period_3.v.duration_sec,
                                duration - p1_duration - p2_duration)
                       ELSE 0
    IN  Ok(c.period_1.rate * p1_duration
           + c.period_2.v.rate * p2_duration
           + c.period_3.v.rate * p3_duration)

\* `if let Some(config)` of period 2 and of period 3: the duration consumed
\* out of `left` and its reward, both 0 when the period is None
period_calc(o, left) ==
    IF ~o.some THEN Ok([duration |-> 0, reward |-> 0])
    ELSE Bind(left, LAMBDA l :
         Bind(try_mul(o.v.rate, Min(o.v.duration_sec, l)), LAMBDA reward :
         Ok([duration |-> Min(o.v.duration_sec, l), reward |-> reward])))

\* the two assert! lines and the result
accrued_checked(c, accrued_duration, accrued_reward) ==
    Bind(max_duration(c), LAMBDA maxd :
    IF ~(accrued_duration <= maxd) THEN Err("panic")
    ELSE Bind(max_reward_per_gem(c), LAMBDA maxr :
         IF ~(accrued_reward <= maxr) THEN Err("panic")
         ELSE Ok(accrued_reward)))

accrued_reward_per_gem(c, duration) ==
    LET p1_duration == Min(c.period_1.duration_sec, duration)
    IN  Bind(try_mul(c.period_1.rate, p1_duration), LAMBDA p1_reward :
        Bind(period_calc(c.period_2, try_sub(duration, p1_duration)), LAMBDA p2 :
        Bind(period_calc(c.period_3,
                         Bind(try_sub(duration, p1_duration),
                              LAMBDA l : try_sub(l, p2.duration))), LAMBDA p3 :
        Bind(Bind(try_add(p1_duration, p2.duration),
                  LAMBDA d12 : try_add(d12, p3.duration)), LAMBDA accrued_duration :
        Bind(Bind(try_add(p1_reward, p2.reward),
                  LAMBDA r12 : try_add(r12, p3.reward)), LAMBDA accrued :
        accrued_checked(c, accrued_duration, accrued))))))

remaining_reward_per_gem_slip(c, passed_duration) ==
    Bind(max_duration(c), LAMBDA maxd :
    Bind(accrued_reward_per_gem(c, passed_duration), LAMBDA acc :
    try_sub(maxd, acc)))

remaining_reward_per_gem(c, passed_duration) ==
    Bind(max_reward_per_gem(c), LAMBDA maxr :
    Bind(accrued_reward_per_gem(c, passed_duration), LAMBDA acc :
    try_sub(maxr, acc)))

remaining_required_funding(c, passed_duration) ==
    Bind(remaining_reward_per_gem(c, passed_duration),
         LAMBDA rem : try_mul(rem, c.gems_funded))

required_funding(c) ==
    Bind(max_reward_per_gem(c), LAMBDA maxr : try_mul(maxr, c.gems_funded))

---------------------------------------------------------------------------
(* TimeTracker and FundsTracker, the collaborators of crate::state *)

reward_begin_ts(t) == try_sub(t.reward_end_ts, t.duration_sec)

remaining_duration(t, now_ts) ==
    IF now_ts >= t.reward_end_ts THEN Ok(0) ELSE try_sub(t.reward_end_ts, now_ts)

passed_duration(t, now_ts) ==
    Bind(remaining_duration(t, now_ts), LAMBDA rem : try_sub(t.duration_sec, rem))

reward_upper_bound(t, now_ts) == Min(t.reward_end_ts, now_ts)

reward_lower_bound(t, farmer_begin_staking_ts) ==
    Bind(reward_begin_ts(t), LAMBDA begin : Ok(Max(begin, farmer_begin_staking_ts)))

\* the window cut at now_ts: Ok(the TimeTracker as written) or the Err
end_reward(t, now_ts) ==
    Bind(remaining_duration(t, now_ts), LAMBDA rem :
    Bind(try_sub(t.duration_sec, rem), LAMBDA dur :
    Ok([t EXCEPT !.duration_sec = dur,
                 !.reward_end_ts = Min(now_ts, t.reward_end_ts)])))

pending_amount(fu) ==
    Bind(try_sub(fu.total_funded, fu.total_refunded),
         LAMBDA a : try_sub(a, fu.total_accrued_to_stakers))

---------------------------------------------------------------------------
(* impl FixedRateReward.  Each operation yields what it returns (res) and the
   objects it was handed as they are when it returns, so that the writes made
   before a failing `?` are part of the outcome. *)

\* line 144 without its comparison
lock_reward_unchecked(cfg, now_ts, t, fu) ==
    LET checked ==
            Bind(passed_duration(t, now_ts), LAMBDA passed_duration_ :
            Bind(pending_amount(fu), LAMBDA pending :
            Bind(remaining_required_funding(cfg, passed_duration_), LAMBDA required :
            Ok(0))))
    IN  [res |-> checked,
         times |-> IF checked.ok THEN [t EXCEPT !.lock_end_ts = t.reward_end_ts] ELSE t]

lock_reward_outcome(t, checked) ==
    [res |-> checked,
     times |-> IF checked.ok THEN [t EXCEPT !.lock_end_ts = t.reward_end_ts] ELSE t]

lock_reward(cfg, now_ts, t, fu) ==
    lock_reward_outcome(t,
        Bind(passed_duration(t, now_ts), LAMBDA passed_duration_ :
        Bind(pending_amount(fu), LAMBDA pending :
        Bind(remaining_required_funding(cfg, passed_duration_), LAMBDA required :
        IF pending < required THEN Err("RewardUnderfunded") ELSE Ok(0)))))

\* lines 164-172, with new_duration and new_amount computed
fund_reward_write(cfg, now_ts, t, fu, new_config, new_duration, new_amount) ==
    LET t1 == [t EXCEPT !.duration_sec = new_duration]
        end == try_add(now_ts, new_amount)
        t2 == [t1 EXCEPT !.reward_end_ts = end.val]
        funded == try_add(fu.total_funded, new_amount)
    IN  IF ~end.ok
        THEN [res |-> end, config |-> cfg, times |-> t1, funds |-> fu]
        ELSE IF ~funded.ok
        THEN [res |-> funded, config |-> cfg, times |-> t2, funds |-> fu]
        ELSE [res |-> Ok(0), config |-> new_config, times |-> t2,
              funds |-> [fu EXCEPT !.total_funded = funded.val]]

\* lines 161-162 failed, or the rest of fund_reward
fund_reward_with(cfg, now_ts, t, fu, new_config, new_duration, new_amount) ==
    IF ~new_duration.ok
    THEN [res |-> new_duration, config |-> cfg, times |-> t, funds |-> fu]
    ELSE IF ~new_amount.ok
    THEN [res |-> new_amount, config |-> cfg, times |-> t, funds |-> fu]
    ELSE fund_reward_write(cfg, now_ts, t, fu, new_config,
                           new_duration.val, new_amount.val)

\* new_amount taken from required_funding()
fund_reward_required(cfg, now_ts, t, fu, new_config) ==
    fund_reward_with(cfg, now_ts, t, fu, new_config,
                     max_duration(new_config), required_funding(new_config))

fund_reward(cfg, now_ts, t, fu, new_config) ==
    fund_reward_with(cfg, now_ts, t, fu, new_config,
                     max_duration(new_config), max_duration(new_config))

\* total_refunded is assigned the refund where the code adds it
cancel_reward_with_assign(t, fu, ended, refund_amount) ==
    IF ~ended.ok
    THEN [res |-> ended, times |-> t, funds |-> fu]
    ELSE IF ~refund_amount.ok
    THEN [res |-> refund_amount, times |-> ended.val, funds |-> fu]
    ELSE [res |-> Ok(refund_amount.val), times |-> ended.val,
          funds |-> [fu EXCEPT !.total_refunded = refund_amount.val]]

\* lines 185-191, with end_reward and pending_amount computed
cancel_reward_with(t, fu, ended, refund_amount) ==
    LET refunded == try_add(fu.total_refunded, refund_amount.val)
    IN  IF ~ended.ok
        THEN [res |-> ended, times |-> t, funds |-> fu]
        ELSE IF ~refund_amount.ok
        THEN [res |-> refund_amount, times |-> ended.val, funds |-> fu]
        ELSE IF ~refunded.ok
        THEN [res |-> refunded, times |-> ended.val, funds |-> fu]
        ELSE [res |-> Ok(refund_amount.val), times |-> ended.val,
              funds |-> [fu EXCEPT !.total_refunded = refunded.val]]

\* the gate on whole gems dropped
cancel_reward_ungated(made_whole, participating, now_ts, t, fu) ==
    cancel_reward_with(t, fu, end_reward(t, now_ts), pending_amount(fu))

cancel_reward(made_whole, participating, now_ts, t, fu) ==
    IF made_whole < participating
    THEN [res |-> Err("NotAllGemsWhole"), times |-> t, funds |-> fu]
    ELSE cancel_reward_with(t, fu, end_reward(t, now_ts), pending_amount(fu))

\* the total of the cycle is credited at every call, nothing subtracted
newly_accured_reward_incremental(cfg, now_ts, t, farmer) ==
    Bind(reward_lower_bound(t, farmer.begin_staking_ts), LAMBDA reward_lower_bound_ :
    Bind(try_sub(reward_upper_bound(t, now_ts), reward_lower_bound_),
         LAMBDA staking_duration :
    Bind(accrued_reward_per_gem(cfg, staking_duration), LAMBDA reward_per_gem :
    try_mul(reward_per_gem, farmer.gems_staked))))

\* lines 219-231: newly_accured_reward
newly_accured_reward(cfg, now_ts, t, farmer) ==
    Bind(reward_lower_bound(t, farmer.begin_staking_ts), LAMBDA reward_lower_bound_ :
    Bind(try_sub(reward_upper_bound(t, now_ts), reward_lower_bound_),
         LAMBDA staking_duration :
    Bind(accrued_reward_per_gem(cfg, staking_duration), LAMBDA reward_per_gem :
    Bind(try_mul(reward_per_gem, farmer.gems_staked), LAMBDA total :
    try_sub(total, farmer.accrued_this_staking_cycle)))))

\* the farmer's tracker of the staking cycle is left as it was
accrue_untracked(made_whole, now_ts, fu, t, farmer, newly) ==
    LET accrued == try_add(farmer.accrued_reward, newly.val)
        f2 == [farmer EXCEPT !.accrued_reward = accrued.val]
        to_stakers == try_add(fu.total_accrued_to_stakers, newly.val)
        fu1 == [fu EXCEPT !.total_accrued_to_stakers = to_stakers.val]
        f3 == [f2 EXCEPT !.whole = TRUE]
        whole == try_add(made_whole, farmer.gems_staked)
    IN  IF ~newly.ok
        THEN [res |-> newly, funds |-> fu, farmer |-> farmer, gems_made_whole |-> made_whole]
        ELSE IF ~accrued.ok
        THEN [res |-> accrued, funds |-> fu, farmer |-> farmer, gems_made_whole |-> made_whole]
        ELSE IF ~to_stakers.ok
        THEN [res |-> to_stakers, funds |-> fu, farmer |-> f2, gems_made_whole |-> made_whole]
        ELSE IF ~(now_ts > t.reward_end_ts)
        THEN [res |-> Ok(0), funds |-> fu1, farmer |-> f2, gems_made_whole |-> made_whole]
        ELSE IF ~whole.ok
        THEN [res |-> whole, funds |-> fu1, farmer |-> f3, gems_made_whole |-> made_whole]
        ELSE [res |-> Ok(0), funds |-> fu1, farmer |-> f3, gems_made_whole |-> whole.val]

\* lines 234-257: the farmer, the farm and the whole mark are updated in turn
accrue(made_whole, now_ts, fu, t, farmer, newly) ==
    LET cycle == try_add(farmer.accrued_this_staking_cycle, newly.val)
        f1 == [farmer EXCEPT !.accrued_this_staking_cycle = cycle.val]
        accrued == try_add(farmer.accrued_reward, newly.val)
        f2 == [f1 EXCEPT !.accrued_reward = accrued.val]
        to_stakers == try_add(fu.total_accrued_to_stakers, newly.val)
        fu1 == [fu EXCEPT !.total_accrued_to_stakers = to_stakers.val]
        f3 == [f2 EXCEPT !.whole = TRUE]
        whole == try_add(made_whole, farmer.gems_staked)
    IN  IF ~newly.ok
        THEN [res |-> newly, funds |-> fu, farmer |-> farmer, gems_made_whole |-> made_whole]
        ELSE IF ~cycle.ok
        THEN [res |-> cycle, funds |-> fu, farmer |-> farmer, gems_made_whole |-> made_whole]
        ELSE IF ~accrued.ok
        THEN [res |-> accrued, funds |-> fu, farmer |-> f1, gems_made_whole |-> made_whole]
        ELSE IF ~to_stakers.ok
        THEN [res |-> to_stakers, funds |-> fu, farmer |-> f2, gems_made_whole |-> made_whole]
        ELSE IF ~(now_ts > t.reward_end_ts)
        THEN [res |-> Ok(0), funds |-> fu1, farmer |-> f2, gems_made_whole |-> made_whole]
        ELSE IF ~whole.ok
        THEN [res |-> whole, funds |-> fu1, farmer |-> f3, gems_made_whole |-> made_whole]
        ELSE [res |-> Ok(0), funds |-> fu1, farmer |-> f3, gems_made_whole |-> whole.val]

\* a whole farmer is taken back into accrual whenever the update runs
update_accrued_reward_revisit(cfg, made_whole, now_ts, fu, t, farmer) ==
    IF farmer.begin_staking_ts > reward_upper_bound(t, now_ts)
    THEN [res |-> Ok(0), funds |-> fu, farmer |-> farmer, gems_made_whole |-> made_whole]
    ELSE accrue(made_whole, now_ts, fu, t, [farmer EXCEPT !.whole = FALSE],
                newly_accured_reward(cfg, now_ts, t, farmer))

\* the early return on a whole farmer dropped
update_accrued_reward_again(cfg, made_whole, now_ts, fu, t, farmer) ==
    IF farmer.begin_staking_ts > reward_upper_bound(t, now_ts)
    THEN [res |-> Ok(0), funds |-> fu, farmer |-> farmer, gems_made_whole |-> made_whole]
    ELSE accrue(made_whole, now_ts, fu, t, farmer,
                newly_accured_reward(cfg, now_ts, t, farmer))

update_accrued_reward(cfg, made_whole, now_ts, fu, t, farmer) ==
    IF farmer.whole
    THEN [res |-> Ok(0), funds |-> fu, farmer |-> farmer, gems_made_whole |-> made_whole]
    ELSE IF farmer.begin_staking_ts > reward_upper_bound(t, now_ts)
    THEN [res |-> Ok(0), funds |-> fu, farmer |-> farmer, gems_made_whole |-> made_whole]
    ELSE accrue(made_whole, now_ts, fu, t, farmer,
                newly_accured_reward(cfg, now_ts, t, farmer))

---------------------------------------------------------------------------
(* State after construction: nothing funded, nobody staked *)

ZeroConfig == FixedRateConfig(PeriodConfig(0, 0), None, None, 0)

Farmers == {"f1"}

NewFarmer ==
    [gems_staked |-> 0, begin_staking_ts |-> 0,
     accrued_this_staking_cycle |-> 0, accrued_reward |-> 0, whole |-> FALSE]

NoCall == [op |-> "none", farmer |-> "none", res |-> Ok(0)]

NoCalc ==
    [phase |-> "new", elapsed |-> 0,
     max_duration |-> Ok(0), max_reward_per_gem |-> Ok(0), required_funding |-> Ok(0),
     accrued |-> <<>>, remaining |-> Ok(0), remaining_funding |-> Ok(0)]

RewardInit ==
    /\ gems_participating = 0
    /\ gems_made_whole = 0
    /\ times = [duration_sec |-> 0, reward_end_ts |-> 0, lock_end_ts |-> 0]
    /\ funds = [total_funded |-> 0, total_refunded |-> 0, total_accrued_to_stakers |-> 0]
    /\ farmers = [f \in Farmers |-> NewFarmer]
    /\ now = 0
    /\ last = NoCall
    /\ sinceLock = FALSE
    /\ fundings = 0

---------------------------------------------------------------------------
(* SpecCalc: the pure functions applied to one config, elapsed = 0, 1, 2, ... *)

MaxElapsed == 3 * MaxDur + 2

CalcInit ==
    /\ config \in CalcConfigs
    /\ calc = NoCalc
    /\ RewardInit

CalcFrame ==
    UNCHANGED <<config, gems_participating, gems_made_whole, times, funds,
                farmers, now, last, sinceLock, fundings>>

\* max_duration(), max_reward_per_gem(), required_funding()
CalcTotals ==
    /\ calc.phase = "new"
    /\ calc' = [calc EXCEPT !.phase = "totals",
                            !.max_duration = max_duration(config),
                            !.max_reward_per_gem = max_reward_per_gem(config),
                            !.required_funding = required_funding(config)]
    /\ CalcFrame

\* accrued_reward_per_gem(elapsed) for the next elapsed
CalcAccrued ==
    /\ calc.phase \in {"totals", "remaining"}
    /\ Len(calc.accrued) <= MaxElapsed
    /\ LET e == Len(calc.accrued)
       IN  calc' = [calc EXCEPT !.phase = "accrued",
                                !.elapsed = e,
                                !.accrued = Append(@, accrued_reward_per_gem(config, e))]
    /\ CalcFrame

\* remaining_reward_per_gem(elapsed), remaining_required_funding(elapsed)
CalcRemaining ==
    /\ calc.phase = "accrued"
    /\ calc' = [calc EXCEPT !.phase = "remaining",
                            !.remaining = remaining_reward_per_gem(config, calc.elapsed),
                            !.remaining_funding =
                                remaining_required_funding(config, calc.elapsed)]
    /\ CalcFrame

CalcNext == CalcTotals \/ CalcAccrued \/ CalcRemaining

SpecCalc == CalcInit /\ [][CalcNext]_vars

---------------------------------------------------------------------------
(* Spec: the life cycle.  A call that returns Err fails the instruction that
   made it and the runtime drops that instruction's writes: the state the call
   left behind is kept here as a final state, observable and without successor. *)

\* the schedules a funder may hand to fund_reward
FundConfigs ==
    {FixedRateConfig(PeriodConfig(2, 2), None, None, 2),
     FixedRateConfig(PeriodConfig(1, 1), Some(PeriodConfig(2, 1)),
                     Some(PeriodConfig(1, 1)), 1),
     FixedRateConfig(PeriodConfig(1, 1), None, Some(PeriodConfig(2, 1)), 0)}

Init ==
    /\ config = ZeroConfig
    /\ calc = NoCalc
    /\ RewardInit

Committed == last.res.ok

Call(op, f, res) == [op |-> op, farmer |-> f, res |-> res]

Tick ==
    /\ Committed
    /\ now < MaxTime
    /\ now' = now + 1
    /\ last' = Call("tick", "none", Ok(0))
    /\ UNCHANGED <<config, gems_participating, gems_made_whole, times, funds,
                   farmers, sinceLock, fundings, calc>>

\* the outcome r of fund_reward stored
FundRewardDone(r) ==
    /\ config' = r.config
    /\ times' = r.times
    /\ funds' = r.funds
    /\ last' = Call("fund_reward", "none", r.res)

FundReward(new_config) ==
    /\ Committed
    /\ fundings < MaxFundings
    /\ fundings' = fundings + 1
    /\ FundRewardDone(fund_reward(config, now, times, funds, new_config))
    /\ sinceLock' = FALSE
    /\ UNCHANGED <<gems_participating, gems_made_whole, farmers, now, calc>>

\* the outcome r of lock_reward stored
LockRewardDone(r) ==
    /\ times' = r.times
    /\ last' = Call("lock_reward", "none", r.res)
    /\ sinceLock' = (r.res.ok \/ sinceLock)

LockReward ==
    /\ Committed
    /\ LockRewardDone(lock_reward(config, now, times, funds))
    /\ UNCHANGED <<config, gems_participating, gems_made_whole, funds, farmers,
                   now, fundings, calc>>

\* the outcome r of cancel_reward stored
CancelRewardDone(r) ==
    /\ times' = r.times
    /\ funds' = r.funds
    /\ last' = Call("cancel_reward", "none", r.res)

CancelReward ==
    /\ Committed
    /\ CancelRewardDone(cancel_reward(gems_made_whole, gems_participating, now,
                                      times, funds))
    /\ UNCHANGED <<config, gems_participating, gems_made_whole, farmers, now,
                   sinceLock, fundings, calc>>

\* the outcome r of update_accrued_reward for farmer f stored
UpdateAccruedRewardDone(f, r) ==
    /\ funds' = r.funds
    /\ farmers' = [farmers EXCEPT ![f] = r.farmer]
    /\ gems_made_whole' = r.gems_made_whole
    /\ last' = Call("update_accrued_reward", f, r.res)

UpdateAccruedReward(f) ==
    /\ Committed
    /\ UpdateAccruedRewardDone(f, update_accrued_reward(config, gems_made_whole, now,
                                                        funds, times, farmers[f]))
    /\ UNCHANGED <<config, gems_participating, times, now, sinceLock, fundings, calc>>

\* n more gems of f staked after the update r of f's reward
StakeDone(f, n, r, participating) ==
    /\ r.res.ok
    /\ participating.ok
    /\ funds' = r.funds
    /\ gems_made_whole' = r.gems_made_whole
    /\ gems_participating' = participating.val
    /\ farmers' = [farmers EXCEPT
                      ![f] = [r.farmer EXCEPT
                                 !.gems_staked = @ + n,
                                 !.begin_staking_ts = now,
                                 !.accrued_this_staking_cycle = 0]]

\* the farm stakes n more gems for f: the farmer's reward is brought up to date,
\* then the gem counts grow and a new staking cycle begins
Stake(f, n) ==
    /\ Committed
    /\ farmers[f].gems_staked + n <= MaxStake
    /\ StakeDone(f, n,
                 update_accrued_reward(config, gems_made_whole, now, funds, times,
                                       farmers[f]),
                 try_add(gems_participating, n))
    /\ last' = Call("stake", f, Ok(0))
    /\ sinceLock' = FALSE
    /\ UNCHANGED <<config, times, now, fundings, calc>>

Next ==
    \/ Tick
    \/ \E c \in FundConfigs : FundReward(c)
    \/ LockReward
    \/ CancelReward
    \/ \E f \in Farmers : UpdateAccruedReward(f)
    \/ \E f \in Farmers : \E n \in 1 .. MaxStake : Stake(f, n)

Spec == Init /\ [][Next]_vars

---------------------------------------------------------------------------
(* SpecUpdate: update_accrued_reward called again and again on one farmer within
   one staking cycle, the config and the time window as one fund_reward left
   them.  gems_staked and begin_staking_ts are arguments the farm hands in: they
   are drawn from their ranges.  calc keeps the state the cycle started from and
   what one single call at the current now makes of it. *)

MaxUpdates == 3

MaxEarlier == 1

\* times and funds as the first fund_reward(new_config) at funded_ts leaves them
FundedAt(funded_ts, new_config) ==
    fund_reward(ZeroConfig, funded_ts,
                [duration_sec |-> 0, reward_end_ts |-> 0, lock_end_ts |-> 0],
                [total_funded |-> 0, total_refunded |-> 0,
                 total_accrued_to_stakers |-> 0],
                new_config)

\* the start of a staking cycle: gems staked at begin, earlier accrued in
\* earlier cycles
UpdateInitAt(new_config, funded, gems, begin, earlier) ==
    /\ funded.res.ok
    /\ config = new_config
    /\ times = funded.times
    /\ funds = [funded.funds EXCEPT !.total_accrued_to_stakers = earlier]
    /\ farmers = [f \in Farmers |->
                     [gems_staked |-> gems, begin_staking_ts |-> begin,
                      accrued_this_staking_cycle |-> 0, accrued_reward |-> earlier,
                      whole |-> FALSE]]
    /\ gems_participating = gems
    /\ gems_made_whole = 0
    /\ now = begin
    /\ last = NoCall
    /\ sinceLock = FALSE
    /\ fundings = 1
    /\ calc = [phase |-> "staked", updates |-> 0,
               funds |-> funds, farmers |-> farmers, gems_made_whole |-> 0,
               once |-> [res |-> Ok(0), funds |-> funds,
                         farmer |-> farmers["f1"], gems_made_whole |-> 0]]

UpdateInit ==
    \E new_config \in FundConfigs, funded_ts \in 0 .. MaxTime, gems \in 1 .. MaxStake,
       begin \in 0 .. MaxTime, earlier \in 0 .. MaxEarlier :
        UpdateInitAt(new_config, FundedAt(funded_ts, new_config), gems, begin, earlier)

\* one more call for f at now, and the single call at now on the cycle's start
UpdateAgain(f) ==
    /\ Committed
    /\ calc.updates < MaxUpdates
    /\ UpdateAccruedRewardDone(f, update_accrued_reward(config, gems_made_whole, now,
                                                        funds, times, farmers[f]))
    /\ calc' = [calc EXCEPT
                   !.phase = "updated",
                   !.updates = @ + 1,
                   !.once = update_accrued_reward(config, calc.gems_made_whole, now,
                                                  calc.funds, times, calc.farmers[f])]
    /\ UNCHANGED <<config, gems_participating, times, now, sinceLock, fundings>>

UpdateNext == Tick \/ \E f \in Farmers : UpdateAgain(f)

SpecUpdate == UpdateInit /\ [][UpdateNext]_vars

---------------------------------------------------------------------------
(* Reference arithmetic over the integers, for the claims *)

OptDuration(o) == IF o.some THEN o.v.duration_sec ELSE 0

OptRate(o) == IF o.some THEN o.v.rate ELSE 0

ExactDuration(c) ==
    c.period_1.duration_sec + OptDuration(c.period_2) + OptDuration(c.period_3)

ExactReward(c) ==
    c.period_1.rate * c.period_1.duration_sec
    + OptRate(c.period_2) * OptDuration(c.period_2)
    + OptRate(c.period_3) * OptDuration(c.period_3)

\* the rate paid during second s (counted from 0) of the schedule
RateAt(c, s) ==
    LET e1 == c.period_1.duration_sec
        e2 == e1 + OptDuration(c.period_2)
        e3 == e2 + OptDuration(c.period_3)
    IN  IF s < e1 THEN c.period_1.rate
        ELSE IF s < e2 THEN OptRate(c.period_2)
        ELSE IF s < e3 THEN OptRate(c.period_3)
        ELSE 0

RECURSIVE PiecewiseSum(_, _)
PiecewiseSum(c, elapsed) ==
    IF elapsed = 0 THEN 0
    ELSE PiecewiseSum(c, elapsed - 1) + RateAt(c, elapsed - 1)

---------------------------------------------------------------------------
(* Claims about the life cycle, under Spec *)

\* everything a call may write, apart from the record of the call itself
RewardState == <<config, gems_participating, gems_made_whole, times, funds, farmers>>

\* funded - refunded - accrued over the integers
PendingInt(fu) == fu.total_funded - fu.total_refunded - fu.total_accrued_to_stakers

(* C1 as stated: cancel_reward fails with NotAllGemsWhole and changes nothing
   whenever gems_made_whole < gems_participating; in every other state it
   succeeds, returns pending_amount() and adds it to total_refunded. *)
C1_Original ==
    [][last'.op = "cancel_reward" =>
          IF gems_made_whole < gems_participating
          THEN /\ last'.res = Err("NotAllGemsWhole")
               /\ UNCHANGED RewardState
          ELSE /\ last'.res = Ok(PendingInt(funds))
               /\ funds' = [funds EXCEPT !.total_refunded = @ + PendingInt(funds)]
      ]_vars

(* C1 amended: cancel_reward fails with NotAllGemsWhole and changes nothing
   whenever gems_made_whole < gems_participating; otherwise, if end_reward(now)
   fails it fails with that error, else when
   total_refunded + total_accrued_to_stakers <= total_funded it succeeds, returns
   pending_amount() and adds exactly that to total_refunded, and when the sum
   exceeds total_funded it fails with ArithmeticUnderflow; a failure leaves the
   funds as they were. *)
C1_CancelGate ==
    [][last'.op = "cancel_reward" =>
          LET ended == end_reward(times, now)
          IN  IF gems_made_whole < gems_participating
              THEN /\ last'.res = Err("NotAllGemsWhole")
                   /\ UNCHANGED RewardState
              ELSE IF ~ended.ok
              THEN /\ last'.res = ended
                   /\ funds' = funds
              ELSE IF PendingInt(funds) >= 0
              THEN /\ last'.res = Ok(PendingInt(funds))
                   /\ funds' = [funds EXCEPT !.total_refunded = @ + PendingInt(funds)]
              ELSE /\ last'.res = Err("ArithmeticUnderflow")
                   /\ funds' = funds
      ]_vars

\* a staked farmer was made whole and the cancel paid back a positive remainder
C1_Witness ==
    /\ last.op = "cancel_reward"
    /\ last.res.ok
    /\ last.res.val > 0
    /\ gems_participating > 0
    /\ gems_made_whole = gems_participating
    /\ funds.total_refunded >= last.res.val
    /\ PendingInt(funds) = 0

(* C2: gems_made_whole <= gems_participating in every reachable state. *)
C2_WholeWithinParticipating == gems_made_whole <= gems_participating

\* every participating gem has been made whole, and an update has just run on
\* the farmer who is whole already
C2_Witness ==
    /\ gems_participating > 1
    /\ gems_made_whole = gems_participating
    /\ last.op = "update_accrued_reward"
    /\ last.res.ok
    /\ farmers[last.farmer].whole

(* C3 as stated: a successful fund_reward adds new_config.required_funding()
   = max_reward_per_gem() * gems_funded to total_funded. *)
C3_FundsRequiredFunding ==
    [][(last'.op = "fund_reward" /\ last'.res.ok) =>
          funds'.total_funded
            = funds.total_funded + ExactReward(config') * config'.gems_funded
      ]_vars

(* C4 as stated: a call that returns an error leaves the aggregate, the time
   window, the funds and the farmer's record exactly as they were. *)
C4_AtomicOnError ==
    [][~last'.res.ok => UNCHANGED RewardState]_vars

(* C5 as stated: lock_reward fails with RewardUnderfunded (InsufficientFunding)
   exactly when pending_amount() < remaining_reward_per_gem(passed) * gems_funded,
   and on success lock_end_ts = reward_end_ts. *)
C5_Original ==
    [][last'.op = "lock_reward" =>
          LET passed == passed_duration(times, now)
              rem == remaining_reward_per_gem(config, passed.val)
          IN  (passed.ok /\ rem.ok) =>
                /\ (last'.res = Err("RewardUnderfunded"))
                     <=> (PendingInt(funds) < rem.val * config.gems_funded)
                /\ last'.res.ok => times'.lock_end_ts = times'.reward_end_ts
      ]_vars

(* C5 amended: when passed_duration(now), pending_amount() or
   remaining_reward_per_gem(passed) fails, or
   remaining_reward_per_gem(passed) * gems_funded overflows the word, lock_reward
   fails with that arithmetic error; otherwise it fails with RewardUnderfunded
   exactly when pending_amount() < remaining_reward_per_gem(passed) * gems_funded
   (gems_funded, whatever gems_participating is) and succeeds in every other
   case; a failure leaves times unchanged and a success sets
   lock_end_ts = reward_end_ts and nothing else. *)
C5_LockGate ==
    [][last'.op = "lock_reward" =>
          LET passed == passed_duration(times, now)
              rem == remaining_reward_per_gem(config, passed.val)
              owed == rem.val * config.gems_funded
          IN  /\ IF ~passed.ok
                 THEN last'.res = passed
                 ELSE IF PendingInt(funds) < 0
                 THEN last'.res = Err("ArithmeticUnderflow")
                 ELSE IF ~rem.ok
                 THEN last'.res = rem
                 ELSE IF owed > MaxU
                 THEN last'.res = Err("ArithmeticOverflow")
                 ELSE IF PendingInt(funds) < owed
                 THEN last'.res = Err("RewardUnderfunded")
                 ELSE last'.res.ok
              /\ times' = IF last'.res.ok
                          THEN [times EXCEPT !.lock_end_ts = times.reward_end_ts]
                          ELSE times
      ]_vars

\* a lock that succeeded before the window closed, with something still owed
\* for the funded gems and more gems staked than were funded
C5_Witness ==
    /\ last.op = "lock_reward"
    /\ last.res.ok
    /\ times.lock_end_ts = times.reward_end_ts
    /\ now < times.reward_end_ts
    /\ remaining_required_funding(config, passed_duration(times, now).val).val > 0
    /\ gems_participating > config.gems_funded

(* C6 as stated: after a successful lock_reward, while now <= lock_end_ts and
   only cancel_reward and update_accrued_reward calls have followed,
   pending_amount() >= remaining_required_funding(passed_duration(now)). *)
C6_LockFreezes ==
    (sinceLock /\ Committed /\ now <= times.lock_end_ts) =>
        LET passed == passed_duration(times, now)
            owed == remaining_required_funding(config, passed.val)
        IN  (passed.ok /\ owed.ok) => PendingInt(funds) >= owed.val

(* C11: a farmer who is whole stays whole through every call, a later
   fund_reward that moves reward_end_ts past now included; a farmer becomes whole
   only in a step that runs update_accrued_reward for that farmer, and only when
   now > reward_end_ts. *)
C11_WholeAbsorbing ==
    [][\A f \in Farmers :
          /\ farmers[f].whole => farmers'[f].whole
          /\ (~farmers[f].whole /\ farmers'[f].whole) =>
                /\ last'.op \in {"update_accrued_reward", "stake"}
                /\ last'.farmer = f
                /\ now > times.reward_end_ts
      ]_vars

\* a staked farmer is whole and a fund_reward has just opened a window that
\* ends after now
C11_Witness ==
    /\ last.op = "fund_reward"
    /\ last.res.ok
    /\ now < times.reward_end_ts
    /\ \E f \in Farmers : farmers[f].whole /\ farmers[f].gems_staked > 0

(* C12: update_accrued_reward for a farmer who is whole returns Ok and leaves the
   farmer's record, the funds and gems_made_whole as they were. *)
C12_WholeNoOp ==
    [][(last'.op = "update_accrued_reward" /\ farmers[last'.farmer].whole) =>
          /\ last'.res = Ok(0)
          /\ UNCHANGED RewardState
      ]_vars

\* an update ran on a whole farmer inside a reward window opened after the
\* farmer was made whole; the farmer's gems are counted once
C12_Witness ==
    /\ last.op = "update_accrued_reward"
    /\ last.res.ok
    /\ farmers[last.farmer].whole
    /\ farmers[last.farmer].gems_staked > 0
    /\ now <= times.reward_end_ts
    /\ gems_made_whole = farmers[last.farmer].gems_staked

(* C13: after a successful update_accrued_reward on a farmer who is not whole and
   whose begin_staking_ts <= reward_upper_bound(now), accrued_this_staking_cycle
   is accrued_reward_per_gem(reward_upper_bound(now) - reward_lower_bound(begin))
   * gems_staked, and accrued_reward and total_accrued_to_stakers have grown by
   the amount accrued_this_staking_cycle has grown by. *)
C13_DeltaAccounting ==
    [][(/\ last'.op = "update_accrued_reward"
        /\ last'.res.ok
        /\ ~farmers[last'.farmer].whole
        /\ farmers[last'.farmer].begin_staking_ts <= Min(times.reward_end_ts, now)) =>
          LET f == last'.farmer
              upper == Min(times.reward_end_ts, now)
              lower == Max(times.reward_end_ts - times.duration_sec,
                           farmers[f].begin_staking_ts)
              per_gem == accrued_reward_per_gem(config, upper - lower).val
              delta == farmers'[f].accrued_this_staking_cycle
                         - farmers[f].accrued_this_staking_cycle
          IN  /\ farmers'[f].accrued_this_staking_cycle
                   = per_gem * farmers[f].gems_staked
              /\ farmers'[f].accrued_reward = farmers[f].accrued_reward + delta
              /\ funds'.total_accrued_to_stakers
                   = funds.total_accrued_to_stakers + delta
      ]_vars

\* an update inside the window credited a farmer who is in a second staking
\* cycle: the lifetime total is more than this cycle's
C13_Witness ==
    /\ last.op = "update_accrued_reward"
    /\ last.res.ok
    /\ ~farmers[last.farmer].whole
    /\ farmers[last.farmer].begin_staking_ts < now
    /\ now <= times.reward_end_ts
    /\ farmers[last.farmer].accrued_this_staking_cycle > 0
    /\ farmers[last.farmer].accrued_reward
         > farmers[last.farmer].accrued_this_staking_cycle
    /\ funds.total_accrued_to_stakers = farmers[last.farmer].accrued_reward

(* C16: total_funded, total_refunded, total_accrued_to_stakers and
   gems_made_whole never decrease from one state to the next. *)
C16_MonotoneCounters ==
    [][/\ funds'.total_funded >= funds.total_funded
       /\ funds'.total_refunded >= funds.total_refunded
       /\ funds'.total_accrued_to_stakers >= funds.total_accrued_to_stakers
       /\ gems_made_whole' >= gems_made_whole
      ]_vars

\* all four counters have grown and a cancel has just added to total_refunded
C16_Witness ==
    /\ last.op = "cancel_reward"
    /\ last.res.ok
    /\ last.res.val > 0
    /\ funds.total_funded > funds.total_refunded
    /\ funds.total_refunded > 0
    /\ funds.total_accrued_to_stakers > 0
    /\ gems_made_whole > 0

(* C17 as stated: in every state reached by calls that succeeded,
   total_refunded + total_accrued_to_stakers <= total_funded. *)
C17_FundsConservation ==
    Committed =>
        funds.total_refunded + funds.total_accrued_to_stakers <= funds.total_funded

(* C19 as stated: for a farmer who is not whole, at every call of
   update_accrued_reward that gets as far as the subtraction,
   accrued_reward_per_gem(staking_duration) * gems_staked
   >= accrued_this_staking_cycle, fund_reward calls that replace the config and
   move the window in between included. *)
C19_DeltaNeverUnderflows ==
    [][(/\ last'.op = "update_accrued_reward"
        /\ ~farmers[last'.farmer].whole
        /\ farmers[last'.farmer].begin_staking_ts <= Min(times.reward_end_ts, now)
        /\ times.reward_end_ts >= times.duration_sec) =>
          LET f == last'.farmer
              upper == Min(times.reward_end_ts, now)
              lower == Max(times.reward_end_ts - times.duration_sec,
                           farmers[f].begin_staking_ts)
              per_gem == accrued_reward_per_gem(config, upper - lower)
          IN  (upper >= lower /\ per_gem.ok) =>
                  per_gem.val * farmers[f].gems_staked
                      >= farmers[f].accrued_this_staking_cycle
      ]_vars

(* C20: after every successful fund_reward(now, times, funds, new_config),
   config is new_config, times.duration_sec = new_config.max_duration(),
   times.reward_end_ts - now = times.duration_sec, and gems_participating,
   gems_made_whole, lock_end_ts, total_refunded and total_accrued_to_stakers are
   unchanged. *)
C20_FundPostconditions ==
    [][(last'.op = "fund_reward" /\ last'.res.ok) =>
          /\ \E new_config \in FundConfigs :
                /\ fund_reward(config, now, times, funds, new_config).res.ok
                /\ config' = new_config
                /\ times'.duration_sec = ExactDuration(new_config)
          /\ times'.reward_end_ts - now = times'.duration_sec
          /\ times'.lock_end_ts = times.lock_end_ts
          /\ funds'.total_refunded = funds.total_refunded
          /\ funds'.total_accrued_to_stakers = funds.total_accrued_to_stakers
          /\ UNCHANGED <<gems_participating, gems_made_whole, farmers>>
      ]_vars

\* a second funding, of a schedule of three periods, after a lock and an accrual
C20_Witness ==
    /\ last.op = "fund_reward"
    /\ last.res.ok
    /\ now > 0
    /\ config.period_2.some /\ config.period_3.some
    /\ times.duration_sec = 3
    /\ times.reward_end_ts = now + 3
    /\ times.lock_end_ts > 0
    /\ funds.total_accrued_to_stakers > 0
    /\ gems_participating > 0

---------------------------------------------------------------------------
(* Claims about repeated updates within one staking cycle, under SpecUpdate *)

(* C14: within one staking cycle, with config and window unchanged, when the
   calls of update_accrued_reward at t1 <= t2 <= ... have succeeded, the single
   call at the last of these times on the state the cycle started from succeeds
   too, and accrued_this_staking_cycle, accrued_reward and
   total_accrued_to_stakers are what that single call leaves; a repeated call at
   the same now changes none of them. *)
C14_NoDrift ==
    (calc.phase = "updated" /\ Committed) =>
        /\ calc.once.res.ok
        /\ \A f \in Farmers :
              /\ farmers[f].accrued_this_staking_cycle
                   = calc.once.farmer.accrued_this_staking_cycle
              /\ farmers[f].accrued_reward = calc.once.farmer.accrued_reward
        /\ funds.total_accrued_to_stakers = calc.once.funds.total_accrued_to_stakers

\* three calls in one cycle, the last one at a later time than the first, with
\* a positive total credited on top of what earlier cycles brought
C14_Witness ==
    /\ calc.phase = "updated"
    /\ Committed
    /\ last.op = "update_accrued_reward"
    /\ calc.updates = 3
    /\ now > farmers[last.farmer].begin_staking_ts + 1
    /\ farmers[last.farmer].accrued_this_staking_cycle > 1
    /\ farmers[last.farmer].accrued_reward
         > farmers[last.farmer].accrued_this_staking_cycle
    /\ calc.once.farmer.accrued_reward = farmers[last.farmer].accrued_reward

(* C18 as stated: a successful update_accrued_reward with now > reward_end_ts on
   a farmer who is not whole leaves the farmer whole and gems_made_whole
   increased by gems_staked, whatever begin_staking_ts is. *)
C18_MadeWhole ==
    [][(/\ last'.op = "update_accrued_reward"
        /\ last'.res.ok
        /\ ~farmers[last'.farmer].whole
        /\ now > times.reward_end_ts) =>
          /\ farmers'[last'.farmer].whole
          /\ gems_made_whole' = gems_made_whole + farmers[last'.farmer].gems_staked
      ]_vars

---------------------------------------------------------------------------
(* Claims about the pure functions, under SpecCalc *)

TotalsOk == calc.max_duration.ok /\ calc.max_reward_per_gem.ok

---------------------------------------------------------------------------
(* C7: for a config whose totals do not overflow, accrued_reward_per_gem(elapsed)
   succeeds, equals max_reward_per_gem() for every elapsed >= max_duration(), and
   below it is the sum of the rates of the seconds consumed, period 1 first, then
   period 2, then period 3 (an absent period has no seconds). *)
C7_Saturation ==
    (calc.phase \in {"accrued", "remaining"} /\ TotalsOk) =>
        LET a == calc.accrued[calc.elapsed + 1]
        IN  /\ a.ok
            /\ a.val = PiecewiseSum(config, calc.elapsed)
            /\ calc.elapsed >= calc.max_duration.val
                   => a.val = calc.max_reward_per_gem.val

\* period 2 absent, period 3 present and paying, elapsed past the end of the schedule
C7_Witness ==
    /\ calc.phase = "accrued"
    /\ TotalsOk
    /\ ~config.period_2.some
    /\ config.period_3.some
    /\ config.period_3.v.rate > 0
    /\ config.period_3.v.duration_sec > 0
    /\ config.period_1.rate > 0
    /\ calc.elapsed > calc.max_duration.val
    /\ calc.accrued[calc.elapsed + 1] = Ok(ExactReward(config))

(* C8: for a config whose totals do not overflow, accrued_reward_per_gem is
   non-decreasing in elapsed over [0, max_duration()]. *)
C8_Monotonic ==
    TotalsOk =>
        \A i \in DOMAIN calc.accrued :
            \A j \in DOMAIN calc.accrued :
                (i <= j /\ j - 1 <= calc.max_duration.val)
                    => calc.accrued[i].val <= calc.accrued[j].val

\* three periods that all pay, and the whole schedule has been walked through
C8_Witness ==
    /\ TotalsOk
    /\ config.period_1.rate > 0 /\ config.period_1.duration_sec > 0
    /\ config.period_2.some /\ config.period_2.v.rate > 0
    /\ config.period_2.v.duration_sec > 0
    /\ config.period_3.some /\ config.period_3.v.rate > 0
    /\ config.period_3.v.duration_sec > 0
    /\ Len(calc.accrued) > calc.max_duration.val
    /\ calc.accrued[1].val < calc.accrued[2].val
    /\ calc.accrued[2].val < calc.accrued[Len(calc.accrued)].val

(* C9: for a config whose totals do not overflow, remaining_reward_per_gem(d) is
   max_reward_per_gem() - accrued_reward_per_gem(d), and 0 once d >= max_duration();
   remaining_required_funding(d) is that times gems_funded whenever
   required_funding() does not overflow, and 0 once d >= max_duration(). *)
C9_Remaining ==
    (calc.phase = "remaining" /\ TotalsOk) =>
        LET a == calc.accrued[calc.elapsed + 1]
        IN  /\ calc.remaining = Ok(calc.max_reward_per_gem.val - a.val)
            /\ calc.required_funding.ok
                   => calc.remaining_funding
                        = Ok(calc.remaining.val * config.gems_funded)
            /\ calc.elapsed >= calc.max_duration.val
                   => /\ calc.remaining = Ok(0)
                      /\ calc.remaining_funding = Ok(0)

\* part of the schedule is still owed: a positive remainder times several gems
C9_Witness ==
    /\ calc.phase = "remaining"
    /\ TotalsOk
    /\ calc.required_funding.ok
    /\ config.gems_funded > 1
    /\ calc.elapsed > 0
    /\ calc.accrued[calc.elapsed + 1].val > 0
    /\ calc.remaining.val > 0
    /\ calc.remaining_funding.val = calc.remaining.val * config.gems_funded

(* C10: at word width WordBits, max_duration() and max_reward_per_gem() return the
   exact sum when it fits the word and fail with ArithmeticOverflow otherwise; they
   never return a sum wrapped modulo 2^WordBits. *)
C10_Checked ==
    calc.phase # "new" =>
        /\ calc.max_duration
             = IF ExactDuration(config) <= MaxU
               THEN Ok(ExactDuration(config))
               ELSE Err("ArithmeticOverflow")
        /\ calc.max_reward_per_gem
             = IF ExactReward(config) <= MaxU
               THEN Ok(ExactReward(config))
               ELSE Err("ArithmeticOverflow")

\* both sums overflow the word while every single term fits it
C10_Witness ==
    /\ calc.phase = "totals"
    /\ ExactDuration(config) > MaxU
    /\ ExactReward(config) > MaxU
    /\ config.period_1.rate * config.period_1.duration_sec <= MaxU
    /\ calc.max_duration = Err("ArithmeticOverflow")
    /\ calc.max_reward_per_gem = Err("ArithmeticOverflow")

(* C15: the two assert! lines of accrued_reward_per_gem never fire and its
   subtractions never underflow: whatever the config and the elapsed time, it
   returns a value that is at most the exact total of the schedule, or
   ArithmeticOverflow; and remaining_reward_per_gem and remaining_required_funding
   never fail with ArithmeticUnderflow. *)
C15_AssertsHold ==
    /\ \A i \in DOMAIN calc.accrued :
          /\ calc.accrued[i] # Err("panic")
          /\ calc.accrued[i] # Err("ArithmeticUnderflow")
          /\ calc.accrued[i].ok => calc.accrued[i].val <= ExactReward(config)
    /\ calc.phase = "remaining" =>
          /\ calc.remaining \notin {Err("panic"), Err("ArithmeticUnderflow")}
          /\ calc.remaining_funding \notin {Err("panic"), Err("ArithmeticUnderflow")}

\* the asserts are tight: three paying periods, elapsed exactly max_duration(),
\* the whole of max_reward_per_gem() accrued and nothing remaining
C15_Witness ==
    /\ calc.phase = "remaining"
    /\ TotalsOk
    /\ config.period_2.some /\ config.period_3.some
    /\ config.period_2.v.rate > 0 /\ config.period_3.v.rate > 0
    /\ config.period_2.v.duration_sec > 0 /\ config.period_3.v.duration_sec > 0
    /\ calc.elapsed = calc.max_duration.val
    /\ calc.accrued[calc.elapsed + 1] = calc.max_reward_per_gem
    /\ calc.remaining = Ok(0)

====
